---- MODULE Spec2Model ----
(***************************************************************************)
(* MessageCollector (a specialization of the generic Collector engine)     *)
(* attached to a client's event bus.  The MessageCollector class is        *)
(* translated from its source; the Collector base class, the client's      *)
(* EventEmitter and the Collection container are not part of the source    *)
(* tree and are modelled from the design document (spec.md, sections 3-5). *)
(***************************************************************************)
EXTENDS Integers, Sequences, FiniteSets, TLC

\* ------------------------------------------------------------------ bounds
MaxMsg == 3          \* message identities are 1..MaxMsg
MaxLimit == 2        \* options.max and options.maxProcessed range over 1..MaxLimit
MaxReceived == 3     \* cap on the received counter

\* --------------------------------------------------------------- constants
\* JavaScript null, as returned by collect() and dispose(); identities are >= 1.
Null == 0
\* The client's max-listener budget before any collector is constructed.
BaseMaxListeners == 10
\* The absent stop reason (endReason getter's null, and "not ended yet").
NoReason == "null"
\* channel.guild?.id of a channel that has no guild.
Undefined == "undefined"

\* Names of util/Constants' Events used by MessageCollector.
MESSAGE_CREATE == "MESSAGE_CREATE"
MESSAGE_DELETE == "MESSAGE_DELETE"
MESSAGE_BULK_DELETE == "MESSAGE_BULK_DELETE"
CHANNEL_DELETE == "CHANNEL_DELETE"
GUILD_DELETE == "GUILD_DELETE"
Events == {MESSAGE_CREATE, MESSAGE_DELETE, MESSAGE_BULK_DELETE, CHANNEL_DELETE, GUILD_DELETE}

\* ------------------------------------------------------------ the universe
Guilds == {"g1", "g2"}
\* Channels: c1 lives in guild g1, c2 in guild g2, d1 is a direct-message channel.
Channels ==
  { [id |-> "c1", guild |-> "g1"],
    [id |-> "c2", guild |-> "g2"],
    [id |-> "d1", guild |-> Undefined] }
ChannelOf(cid) == CHOOSE ch \in Channels : ch.id = cid
\* Channels a collector is constructed on.
TargetChannels == { ChannelOf("c1"), ChannelOf("d1") }

MsgIds == 1..MaxMsg
\* Every third message is a direct message, the others are posted in c1.
Msg(i) == [id |-> i, channel |-> IF i % 3 = 0 THEN "d1" ELSE "c1"]
Messages == { Msg(i) : i \in MsgIds }

\* An option is a set holding at most one number: {} is "not given".
Truthy(o) == \E n \in o : n # 0
Val(o) == CHOOSE n \in o : TRUE
Limits == { {} } \cup { {n} : n \in 1..MaxLimit }
Durations == { {}, {1} }
\* Caller-supplied filter predicates: accept everything (the default), or
\* accept only messages with an odd identity (rejects every other message).
Filters == {"all", "odd"}
Accepts(f, message) == f = "all" \/ message.id % 2 = 1
OptionSets ==
  [max : Limits, maxProcessed : Limits, time : Durations, idle : Durations,
   filter : Filters]

\* Caller-supplied stop reasons.
UserReasons == {"a", "b"}

\* The collectors that may exist on the client.
Collectors == {"A", "B"}

VARIABLES
  listeners,     \* client: event name -> sequence of the collectors whose listener is registered
  maxListeners,  \* client: the max-listener budget
  calls,         \* client: per collector, how often each registry operation was invoked
  cols,          \* collector -> its state record; its field reason is the reason passed
                 \* to the stop that ended it (NoReason while it runs)
  log,           \* notifications and timer operations of the last step, in order
  last,          \* the operation performed by the last step
  roleManager    \* the guild's RoleManager: its cache, the API requests it issued,
                 \* and the fetch call in progress with its result

vars == <<listeners, maxListeners, calls, cols, log, last, roleManager>>

\* ------------------------------------------------------------- Collection
\* util/Collection (a Map): insertion-ordered entries with unique keys.
Has(coll, k) == \E i \in DOMAIN coll : coll[i].key = k
Set(coll, k, v) ==
  IF Has(coll, k)
  THEN [i \in DOMAIN coll |-> IF coll[i].key = k THEN [key |-> k, value |-> v] ELSE coll[i]]
  ELSE Append(coll, [key |-> k, value |-> v])
IsNot(k, e) == e.key # k
Delete(coll, k) == SelectSeq(coll, LAMBDA e : IsNot(k, e))
Keys(coll) == { coll[i].key : i \in DOMAIN coll }
Size(coll) == Len(coll)

Get(coll, k) ==
  IF Has(coll, k)
  THEN LET i == CHOOSE j \in DOMAIN coll : coll[j].key = k IN coll[i].value
  ELSE [id |-> Null, data |-> Undefined]

\* ------------------------------------------------------------- RoleManager
\* Roles are identified by 1..MaxRole; a role object carries the data it was
\* last built or patched from ("old": before the request, "new": the response).
MaxRole == 2
MaxRequests == 2
RoleIds == 1..MaxRole
RoleData == {"old", "new"}
Role(i, d) == [id |-> i, data |-> d]
NoRole == Role(Null, Undefined)

\* What a fetch call has produced so far.
Result(kind, role, roles) == [kind |-> kind, role |-> role, roles |-> roles]
NoResult == Result("none", NoRole, <<>>)

\* The arguments of a fetch call.
Call(id, doCache, force) == [id |-> id, cache |-> doCache, force |-> force]
NoCall == Call(Null, TRUE, FALSE)

\* A RoleManager: its cache, the number of role-list requests it has issued,
\* the fetch calls that await their response, the number of create calls that
\* await theirs, and the call and result of the fetch that acted last.
NoManager ==
  [cache |-> <<>>, requests |-> 0, pending |-> <<>>, creating |-> 0,
   call |-> NoCall, result |-> NoResult]

\* BaseManager.add(data, cache): the cached role of that id when there is one
\* (patched from data when cache is true), else a new role, cached when cache
\* is true.
add(cache, data, doCache) ==
  IF Has(cache, data.id)
  THEN IF doCache
       THEN [cache |-> Set(cache, data.id, Role(data.id, data.data)),
             ret |-> Role(data.id, data.data)]
       ELSE [cache |-> cache, ret |-> Get(cache, data.id)]
  ELSE IF doCache
       THEN [cache |-> Set(cache, data.id, Role(data.id, data.data)),
             ret |-> Role(data.id, data.data)]
       ELSE [cache |-> cache, ret |-> Role(data.id, data.data)]

\* for (const role of data) roles.set(role.id, this.add(role, cache)), over
\* the response array ids in its own order.
RECURSIVE addAll(_, _, _, _)
addAll(cache, roles, ids, doCache) ==
  IF ids = <<>>
  THEN [cache |-> cache, roles |-> roles]
  ELSE LET r == add(cache, Role(Head(ids), "new"), doCache)
       IN addAll(r.cache, Set(roles, Head(ids), r.ret), Tail(ids), doCache)

\* Variant: the cached role is returned even when force is set.
fetchCall_IgnoresForce(rm, id, doCache, force) ==
  IF id # Null /\ Has(rm.cache, id)
  THEN [rm EXCEPT !.call = Call(id, doCache, force),
                  !.result = Result("role", Get(rm.cache, id), <<>>)]
  ELSE [rm EXCEPT !.call = Call(id, doCache, force), !.result = NoResult,
                  !.pending = Append(@, Call(id, doCache, force)),
                  !.requests = @ + 1]

\* fetch(id, cache, force) up to its await: the cached role, or the request.
fetchCall(rm, id, doCache, force) ==
  IF id # Null /\ ~force /\ Has(rm.cache, id)
  THEN [rm EXCEPT !.call = Call(id, doCache, force),
                  !.result = Result("role", Get(rm.cache, id), <<>>)]
  ELSE [rm EXCEPT !.call = Call(id, doCache, force), !.result = NoResult,
                  !.pending = Append(@, Call(id, doCache, force)),
                  !.requests = @ + 1]

\* The awaiting calls without the k-th.
Without(s, k) == [i \in 1..(Len(s) - 1) |-> IF i < k THEN s[i] ELSE s[i + 1]]

\* The k-th awaiting fetch after its await, its request having answered with
\* the array of the roles ids.
fetchResolve(rm, k, ids) ==
  LET call == rm.pending[k]
      r == addAll(rm.cache, <<>>, ids, call.cache)
  IN [rm EXCEPT !.pending = Without(@, k), !.cache = r.cache, !.call = call,
                !.result = IF call.id # Null
                           THEN IF Has(r.roles, call.id)
                                THEN Result("role", Get(r.roles, call.id), <<>>)
                                ELSE Result("null", NoRole, <<>>)
                           ELSE Result("roles", NoRole, r.roles)]

\* The k-th awaiting fetch after its await, its request having failed: the
\* promise rejects.
fetchReject(rm, k) ==
  [rm EXCEPT !.pending = Without(@, k), !.call = rm.pending[k],
             !.result = Result("rejected", NoRole, <<>>)]

\* create() without a position, up to the response of its POST request.
createCall(rm) == [rm EXCEPT !.creating = @ + 1]

\* create() after the response: the GuildRoleCreate action adds the role the
\* service created to the cache.
createResolve(rm, i) ==
  [rm EXCEPT !.creating = @ - 1, !.cache = add(@, Role(i, "new"), TRUE).cache]

\* create() after its POST request failed.
createReject(rm) == [rm EXCEPT !.creating = @ - 1]

\* ------------------------------------------------------------------ worlds
\* A world is the whole program state; the handlers below map worlds to worlds.
World ==
  [listeners |-> listeners, maxListeners |-> maxListeners, calls |-> calls,
   cols |-> cols, log |-> <<>>]

\* A log entry: collector, notification name, the item's identity, the reason
\* and the collection carried along (for "end").
Entry(c, what, id, reason, carried) ==
  [col |-> c, what |-> what, id |-> id, reason |-> reason, carried |-> carried]
Emit(w, c, what, id, reason) ==
  [w EXCEPT !.log = Append(@, Entry(c, what, id, reason,
                                    IF what = "end" THEN w.cols[c].collected ELSE <<>>))]

NoCalls == [on |-> [e \in Events |-> 0], off |-> [e \in Events |-> 0], inc |-> 0, dec |-> 0]

\* ------------------------------------------------- the client's event bus
on(w, event, c) ==
  [w EXCEPT !.listeners[event] = Append(@, c), !.calls[c].on[event] = @ + 1]

\* Removes the most recently added registration of c's listener, if any.
RemoveLast(s, c) ==
  IF \E i \in DOMAIN s : s[i] = c
  THEN LET k == CHOOSE i \in DOMAIN s : s[i] = c /\ \A j \in DOMAIN s : s[j] = c => j <= i
       IN [i \in 1..(Len(s) - 1) |-> IF i < k THEN s[i] ELSE s[i + 1]]
  ELSE s
removeListener(w, event, c) ==
  [w EXCEPT !.listeners[event] = RemoveLast(@, c), !.calls[c].off[event] = @ + 1]

incrementMaxListeners(w, c) ==
  [w EXCEPT !.maxListeners = @ + 1, !.calls[c].inc = @ + 1]
decrementMaxListeners(w, c) ==
  [w EXCEPT !.maxListeners = @ - 1, !.calls[c].dec = @ + 1]

Registered(ls, event, c) == \E i \in DOMAIN ls[event] : ls[event][i] = c

\* ------------------------------------------------------- MessageCollector
\* Variant: collect without the channel check.
collect_AnyChannel(w, c, message) ==
  [w |-> [w EXCEPT !.cols[c].received = @ + 1], ret |-> message.id]

\* Variant: collect that counts the message down instead of up.
collect_Decrements(w, c, message) ==
  IF message.channel # w.cols[c].channel.id
  THEN [w |-> w, ret |-> Null]
  ELSE [w |-> [w EXCEPT !.cols[c].received = @ - 1], ret |-> message.id]

\* Variant: collect with the channel comparison inverted.
collect_OtherChannel(w, c, message) ==
  IF message.channel = w.cols[c].channel.id
  THEN [w |-> w, ret |-> Null]
  ELSE [w |-> [w EXCEPT !.cols[c].received = @ + 1], ret |-> message.id]

\* collect(message): the message's identity when it was posted in the
\* collector's channel, else null; counts the message as received.
collect(w, c, message) ==
  IF message.channel # w.cols[c].channel.id
  THEN [w |-> w, ret |-> Null]
  ELSE [w |-> [w EXCEPT !.cols[c].received = @ + 1], ret |-> message.id]

\* Variant: dispose with the channel comparison inverted.
dispose_Inverted(col, message) ==
  IF message.channel # col.channel.id THEN message.id ELSE Null

\* dispose(message): the message's identity when it was posted in the
\* collector's channel, else null.
dispose(col, message) ==
  IF message.channel = col.channel.id THEN message.id ELSE Null

\* Variant: the two limits checked in the opposite order.
endReason_ProcessedFirst(col) ==
  IF Truthy(col.options.maxProcessed) /\ col.received = Val(col.options.maxProcessed)
  THEN "processedLimit"
  ELSE IF Truthy(col.options.max) /\ Size(col.collected) >= Val(col.options.max)
       THEN "limit"
       ELSE NoReason

\* Variant: the processed limit compared with > instead of ===.
endReason_ProcessedOffByOne(col) ==
  IF Truthy(col.options.max) /\ Size(col.collected) >= Val(col.options.max)
  THEN "limit"
  ELSE IF Truthy(col.options.maxProcessed) /\ col.received > Val(col.options.maxProcessed)
       THEN "processedLimit"
       ELSE NoReason

\* Variant: the accepted-count limit compared with > instead of >=.
endReason_LimitStrict(col) ==
  IF Truthy(col.options.max) /\ Size(col.collected) > Val(col.options.max)
  THEN "limit"
  ELSE IF Truthy(col.options.maxProcessed) /\ col.received = Val(col.options.maxProcessed)
       THEN "processedLimit"
       ELSE NoReason

\* Variant: the getter ignores the processed limit.
endReason_IgnoresProcessed(col) ==
  IF Truthy(col.options.max) /\ Size(col.collected) >= Val(col.options.max)
  THEN "limit"
  ELSE NoReason

\* The endReason getter.
endReason(col) ==
  IF Truthy(col.options.max) /\ Size(col.collected) >= Val(col.options.max)
  THEN "limit"
  ELSE IF Truthy(col.options.maxProcessed) /\ col.received = Val(col.options.maxProcessed)
       THEN "processedLimit"
       ELSE NoReason

\* Variant: the teardown forgets the guild-delete listener.
endListener_ForgetsGuildDelete(w, c) ==
  LET w1 == removeListener(w, MESSAGE_CREATE, c)
      w2 == removeListener(w1, MESSAGE_DELETE, c)
      w3 == removeListener(w2, MESSAGE_BULK_DELETE, c)
      w4 == removeListener(w3, CHANNEL_DELETE, c)
  IN decrementMaxListeners(w4, c)

\* Variant: the teardown removes every listener of the five events, whichever
\* collector registered it.
endListener_RemovesAll(w, c) ==
  decrementMaxListeners(
    [w EXCEPT !.listeners = [e \in Events |-> <<>>],
              !.calls[c].off = [e \in Events |-> @[e] + 1]], c)

\* The listener registered with once('end'): deregisters the five listeners
\* and gives the budget back.
endListener(w, c) ==
  LET w1 == removeListener(w, MESSAGE_CREATE, c)
      w2 == removeListener(w1, MESSAGE_DELETE, c)
      w3 == removeListener(w2, MESSAGE_BULK_DELETE, c)
      w4 == removeListener(w3, CHANNEL_DELETE, c)
      w5 == removeListener(w4, GUILD_DELETE, c)
  IN decrementMaxListeners(w5, c)

\* ------------------------------------------------- Collector (the engine)
\* emit('end', collected, reason): notifies the observers; the once-listener
\* runs on the first emission only.
emitEnd(w, c, reason) ==
  LET w1 == [Emit(w, c, "end", Null, reason)
               EXCEPT !.cols[c].ends = @ + 1]
  IN IF w1.cols[c].endOnce
     THEN endListener([w1 EXCEPT !.cols[c].endOnce = FALSE], c)
     ELSE w1

\* stop(reason): no-op when already ended; otherwise records the reason,
\* cancels the timers and emits "end".
stop(w, c, reason) ==
  IF w.cols[c].ended
  THEN w
  ELSE emitEnd([w EXCEPT !.cols[c].ended = TRUE,
                         !.cols[c].reason = reason,
                         !.cols[c].timeout = FALSE,
                         !.cols[c].idletimeout = FALSE], c, reason)

checkEnd(w, c) ==
  LET reason == endReason(w.cols[c])
  IN IF reason # NoReason THEN stop(w, c, reason) ELSE w

\* The reason a "collect" observer passes when it calls stop.
ObserverReason == "r"

\* emit('collect', item): notifies the observers; an observer registered by the
\* caller may call stop from inside the notification.
emitCollect(w, c, message) ==
  LET w1 == Emit(w, c, "collect", message.id, NoReason)
  IN IF w1.cols[c].observer = "stop" THEN stop(w1, c, ObserverReason) ELSE w1

\* An accepted item: inserted, announced, and the idle timer restarted when
\* it is active.
accept(w, c, key, message) ==
  LET w1 == [w EXCEPT !.cols[c].collected = Set(@, key, message)]
      w2 == emitCollect(w1, c, message)
  IN IF w2.cols[c].idletimeout THEN Emit(w2, c, "resetIdle", Null, NoReason) ELSE w2

\* handleCollect(item): collect -> filter -> accumulate -> check termination.
handleCollect(w, c, message) ==
  LET r == collect(w, c, message)
      w1 == r.w
  IN IF r.ret = Null \/ w1.cols[c].ended
     THEN w1
     ELSE checkEnd(IF Accepts(w1.cols[c].options.filter, message)
                   THEN accept(w1, c, r.ret, message)
                   ELSE w1, c)

\* handleDispose(item): removes the item when it is present in collected.
handleDispose(w, c, message) ==
  LET d == dispose(w.cols[c], message)
  IN IF w.cols[c].ended \/ d = Null \/ ~Has(w.cols[c].collected, d)
     THEN w
     ELSE Emit([w EXCEPT !.cols[c].collected = Delete(@, d)], c, "dispose", message.id, NoReason)

\* ------------------------------------- MessageCollector's other listeners
\* Variant: only the first message of a bulk deletion is disposed of.
bulkDeleteListener_FirstOnly(w, c, messages) ==
  IF messages = <<>> THEN w ELSE handleDispose(w, c, Head(messages))

RECURSIVE bulkDeleteListener(_, _, _)
bulkDeleteListener(w, c, messages) ==
  IF messages = <<>>
  THEN w
  ELSE bulkDeleteListener(handleDispose(w, c, Head(messages)), c, Tail(messages))

\* Variant: every channel deletion stops the collector.
handleChannelDeletion_AnyChannel(w, c, channel) == stop(w, c, "channelDelete")

\* Variant: the channel deletion announces the end itself instead of calling stop.
handleChannelDeletion_EmitsEnd(w, c, channel) ==
  IF channel.id = w.cols[c].channel.id THEN emitEnd(w, c, "channelDelete") ELSE w

handleChannelDeletion(w, c, channel) ==
  IF channel.id = w.cols[c].channel.id THEN stop(w, c, "channelDelete") ELSE w

\* Variant: every guild deletion stops the collector.
handleGuildDeletion_AnyGuild(w, c, guild) == stop(w, c, "guildDelete")

handleGuildDeletion(w, c, guild) ==
  IF guild = w.cols[c].channel.guild THEN stop(w, c, "guildDelete") ELSE w

\* ------------------------------------------------------------ construction
\* Collector's constructor: the engine state, and the timers the options ask
\* for; no observer of "collect" that calls stop is registered yet.
NewCollector(options) ==
  [options |-> options, collected |-> <<>>, ended |-> FALSE, reason |-> NoReason,
   timeout |-> Truthy(options.time), idletimeout |-> Truthy(options.idle),
   endOnce |-> FALSE, ends |-> 0, observer |-> "none"]

\* Collector's constructor validates the options it knows before anything
\* else: a time, idle or max value that is given must be strictly positive.
Positive(o) == \A n \in o : n > 0
ValidOptions(options) ==
  /\ Positive(options.time)
  /\ Positive(options.idle)
  /\ Positive(options.max)

\* The configuration error thrown at construction.
Throw(w, c) ==
  [w EXCEPT !.log = Append(@, Entry(c, "throw", Null, "ConfigurationError", <<>>))]

\* MessageCollector's constructor: super(client, options) comes first, so an
\* error thrown by it leaves the client untouched; the constructor itself
\* checks none of its options.
construct(w, c, channel, options) ==
  IF ~ValidOptions(options) THEN Throw(w, c) ELSE
  LET col == [f \in {"channel", "received"} |->
                IF f = "channel" THEN channel ELSE 0] @@ NewCollector(options)
      w0 == [w EXCEPT !.cols = (c :> col) @@ @, !.calls = (c :> NoCalls) @@ @]
      w1 == incrementMaxListeners(w0, c)
      w2 == on(w1, MESSAGE_CREATE, c)
      w3 == on(w2, MESSAGE_DELETE, c)
      w4 == on(w3, MESSAGE_BULK_DELETE, c)
      w5 == on(w4, CHANNEL_DELETE, c)
      w6 == on(w5, GUILD_DELETE, c)
  IN [w6 EXCEPT !.cols[c].endOnce = TRUE]

\* A client on which no collector has been constructed yet.
EmptyWorld ==
  [listeners |-> [e \in Events |-> <<>>], maxListeners |-> BaseMaxListeners,
   calls |-> [x \in {} |-> NoCalls], cols |-> [x \in {} |-> NoCalls], log |-> <<>>]

\* ----------------------------------------------- the client emits an event
listener(w, c, event, payload) ==
  CASE event = MESSAGE_CREATE -> handleCollect(w, c, payload)
    [] event = MESSAGE_DELETE -> handleDispose(w, c, payload)
    [] event = MESSAGE_BULK_DELETE -> bulkDeleteListener(w, c, payload)
    [] event = CHANNEL_DELETE -> handleChannelDeletion(w, c, payload)
    [] event = GUILD_DELETE -> handleGuildDeletion(w, c, payload)

RECURSIVE dispatch(_, _, _, _)
dispatch(w, ls, event, payload) ==
  IF ls = <<>>
  THEN w
  ELSE dispatch(listener(w, Head(ls), event, payload), Tail(ls), event, payload)

\* emit(event, payload): calls the listeners registered when the emission starts.
emit(w, event, payload) == dispatch(w, w.listeners[event], event, payload)

\* The sequences of distinct elements of S: the key orders of a Collection
\* (or of an array without repetition) over S.
RECURSIVE Arrangements(_)
Arrangements(S) ==
  {<<>>} \cup UNION { { <<x>> \o s : s \in Arrangements(S \ {x}) } : x \in S }
Range(s) == { s[i] : i \in DOMAIN s }

\* The messages of a bulk deletion: messages.values(), in the insertion order
\* of the event's collection.
Payload(ids) == [i \in DOMAIN ids |-> Msg(ids[i])]

\* --------------------------------------------------------------- the steps
\* The operation of a step: its name, the collectors whose handler it ran, and
\* its argument (a message identity, a set of them, or a channel, guild or reason).
Op(op, to, id, ids, name) ==
  [op |-> op, to |-> to, id |-> id, ids |-> ids, name |-> name]

\* The collectors whose listener for the event is registered.
ListenersOf(event) == { listeners[event][i] : i \in DOMAIN listeners[event] }

Commit(w, l) ==
  /\ listeners' = w.listeners
  /\ maxListeners' = w.maxListeners
  /\ calls' = w.calls
  /\ cols' = w.cols
  /\ log' = w.log
  /\ last' = l
  /\ roleManager' = roleManager

\* The collectors constructed on the client.
Live == DOMAIN cols

BelowCap == \A c \in Live : cols[c].received < MaxReceived

InitWith(S) ==
  /\ \E ch \in [S -> TargetChannels], opts \in [S -> OptionSets] :
       LET RECURSIVE build(_, _)
           build(w, todo) ==
             IF todo = {}
             THEN w
             ELSE LET c == CHOOSE x \in todo : \A y \in todo : x = y \/ x = "A"
                  IN build(construct(w, c, ch[c], opts[c]), todo \ {c})
           w == build(EmptyWorld, S)
       IN /\ listeners = w.listeners
          /\ maxListeners = w.maxListeners
          /\ calls = w.calls
          /\ cols = w.cols
  /\ log = <<>>
  /\ roleManager = NoManager
  /\ last = Op("new", {}, Null, <<>>, "")

Init == InitWith({"A"})

EmitMessageCreate(m) ==
  /\ BelowCap
  /\ Commit(emit(World, MESSAGE_CREATE, m), Op("handleCollect", ListenersOf(MESSAGE_CREATE), m.id, <<>>, ""))

EmitMessageDelete(m) ==
  /\ m \in Messages
  /\ Commit(emit(World, MESSAGE_DELETE, m), Op("handleDispose", ListenersOf(MESSAGE_DELETE), m.id, <<>>, ""))

EmitMessageBulkDelete(ids) ==
  /\ ids # <<>>
  /\ Commit(emit(World, MESSAGE_BULK_DELETE, Payload(ids)), Op("bulkDelete", ListenersOf(MESSAGE_BULK_DELETE), Null, ids, ""))

EmitChannelDelete(channel) ==
  /\ channel \in Channels
  /\ Commit(emit(World, CHANNEL_DELETE, channel), Op("channelDelete", ListenersOf(CHANNEL_DELETE), Null, <<>>, channel.id))

EmitGuildDelete(guild) ==
  /\ guild \in Guilds
  /\ Commit(emit(World, GUILD_DELETE, guild), Op("guildDelete", ListenersOf(GUILD_DELETE), Null, <<>>, guild))

CallHandleCollect(c, m) ==
  /\ c \in Live
  /\ BelowCap
  /\ Commit(handleCollect(World, c, m), Op("handleCollect", {c}, m.id, <<>>, ""))

CallHandleDispose(c, m) ==
  /\ c \in Live
  /\ Commit(handleDispose(World, c, m), Op("handleDispose", {c}, m.id, <<>>, ""))

CallStop(c, reason) ==
  /\ c \in Live
  /\ Commit(stop(World, c, reason), Op("stop", {c}, Null, <<>>, reason))

TimeoutFires(c) ==
  /\ c \in Live
  /\ cols[c].timeout
  /\ Commit(stop([World EXCEPT !.cols[c].timeout = FALSE], c, "time"),
            Op("timeout", {c}, Null, <<>>, "time"))

IdleFires(c) ==
  /\ c \in Live
  /\ cols[c].idletimeout
  /\ Commit(stop([World EXCEPT !.cols[c].idletimeout = FALSE], c, "idle"),
            Op("idle", {c}, Null, <<>>, "idle"))

Next ==
  \/ \E m \in Messages : EmitMessageCreate(m)
  \/ \E m \in Messages : EmitMessageDelete(m)
  \/ \E ids \in Arrangements(MsgIds) : EmitMessageBulkDelete(ids)
  \/ \E channel \in Channels : EmitChannelDelete(channel)
  \/ \E guild \in Guilds : EmitGuildDelete(guild)
  \/ \E c \in Collectors, m \in Messages : CallHandleCollect(c, m)
  \/ \E c \in Collectors, m \in Messages : CallHandleDispose(c, m)
  \/ \E c \in Collectors, reason \in UserReasons : CallStop(c, reason)
  \/ \E c \in Collectors : TimeoutFires(c)
  \/ \E c \in Collectors : IdleFires(c)

Spec == Init /\ [][Next]_vars

\* ------------------------------- a "collect" observer that calls stop
\* The collector of Init, on whose "collect" notification the caller has
\* registered a handler that calls stop(ObserverReason).
InitObserved ==
  /\ \E channel \in TargetChannels, options \in OptionSets :
       LET w == construct(EmptyWorld, "A", channel, options)
       IN /\ listeners = w.listeners
          /\ maxListeners = w.maxListeners
          /\ calls = w.calls
          /\ cols = [w.cols EXCEPT !["A"].observer = "stop"]
  /\ log = <<>>
  /\ roleManager = NoManager
  /\ last = Op("on", {"A"}, Null, <<>>, "collect")

SpecObserved == InitObserved /\ [][Next]_vars

\* The collector of Init, with or without such a handler registered.
InitAnyObserver ==
  /\ \E channel \in TargetChannels, options \in OptionSets, observer \in {"none", "stop"} :
       LET w == construct(EmptyWorld, "A", channel, options)
       IN /\ listeners = w.listeners
          /\ maxListeners = w.maxListeners
          /\ calls = w.calls
          /\ cols = [w.cols EXCEPT !["A"].observer = observer]
  /\ log = <<>>
  /\ roleManager = NoManager
  /\ last = Op("new", {}, Null, <<>>, "")

SpecAnyObserver == InitAnyObserver /\ [][Next]_vars

\* ----------------------------------------------- two collectors, one client
\* Collector A constructed first on channel c1, bounded by max and the time
\* timer; then B on the same or on another channel, bounded by maxProcessed
\* and the idle timer, with a filter that rejects.
OptionsA ==
  [max |-> {MaxLimit}, maxProcessed |-> {}, time |-> {1}, idle |-> {}, filter |-> "all"]
OptionsB ==
  [max |-> {}, maxProcessed |-> {MaxLimit}, time |-> {}, idle |-> {1}, filter |-> "odd"]

InitTwo ==
  /\ \E chB \in TargetChannels :
       LET w == construct(construct(EmptyWorld, "A", ChannelOf("c1"), OptionsA),
                          "B", chB, OptionsB)
       IN /\ listeners = w.listeners
          /\ maxListeners = w.maxListeners
          /\ calls = w.calls
          /\ cols = w.cols
  /\ log = <<>>
  /\ roleManager = NoManager
  /\ last = Op("new", {}, Null, <<>>, "")

SpecTwo == InitTwo /\ [][Next]_vars

\* ------------------------------------------------------ RoleManager.fetch
\* The caches a RoleManager may hold before a call: any roles, as built
\* before the request.
CacheOf(ids) == [k \in DOMAIN ids |-> [key |-> ids[k], value |-> Role(ids[k], "old")]]

Keep(l) == /\ last' = l
           /\ UNCHANGED <<listeners, maxListeners, calls, cols, log>>

\* A fetch that may start while other fetches await their responses.
FetchCall(id, doCache, force) ==
  /\ (id # Null /\ ~force /\ Has(roleManager.cache, id)) \/ roleManager.requests < MaxRequests
  /\ roleManager' = fetchCall(roleManager, id, doCache, force)
  /\ Keep(Op("fetch", {}, id, <<>>, ""))

\* The responses arrive in any order.
FetchResolve(k, ids) ==
  /\ k \in DOMAIN roleManager.pending
  /\ roleManager' = fetchResolve(roleManager, k, ids)
  /\ Keep(Op("resolve", {}, roleManager.pending[k].id, ids, ""))

FetchReject(k) ==
  /\ k \in DOMAIN roleManager.pending
  /\ roleManager' = fetchReject(roleManager, k)
  /\ Keep(Op("reject", {}, roleManager.pending[k].id, <<>>, ""))

\* The public add(data, cache).
AddRole(i, d, doCache) ==
  /\ roleManager' = [roleManager EXCEPT !.cache = add(@, Role(i, d), doCache).cache]
  /\ Keep(Op("add", {}, i, <<>>, ""))

CreateCall ==
  /\ roleManager.creating < MaxRequests
  /\ roleManager' = createCall(roleManager)
  /\ Keep(Op("create", {}, Null, <<>>, ""))

CreateResolve(i) ==
  /\ roleManager.creating > 0
  /\ roleManager' = createResolve(roleManager, i)
  /\ Keep(Op("created", {}, i, <<>>, ""))

CreateReject ==
  /\ roleManager.creating > 0
  /\ roleManager' = createReject(roleManager)
  /\ Keep(Op("notCreated", {}, Null, <<>>, ""))

InitFetch ==
  /\ listeners = EmptyWorld.listeners
  /\ maxListeners = EmptyWorld.maxListeners
  /\ calls = EmptyWorld.calls
  /\ cols = EmptyWorld.cols
  /\ log = <<>>
  /\ \E ids \in Arrangements(RoleIds) : roleManager = [NoManager EXCEPT !.cache = CacheOf(ids)]
  /\ last = Op("client", {}, Null, <<>>, "")

NextFetch ==
  \/ \E id \in {Null} \cup RoleIds, doCache \in BOOLEAN, force \in BOOLEAN :
       FetchCall(id, doCache, force)
  \/ \E k \in 1..MaxRequests, ids \in Arrangements(RoleIds) : FetchResolve(k, ids)
  \/ \E k \in 1..MaxRequests : FetchReject(k)
  \/ \E i \in RoleIds, d \in RoleData, doCache \in BOOLEAN : AddRole(i, d, doCache)
  \/ CreateCall
  \/ \E i \in RoleIds : CreateResolve(i)
  \/ CreateReject

SpecFetch == InitFetch /\ [][NextFetch]_vars

\* ------------------------------------------- construction with any options
\* Options as a caller may give them, zero and negative values included.
AnyLimits == { {} } \cup { {n} : n \in (-1)..MaxLimit }
AnyDurations == { {}, {-1}, {0}, {1} }
AnyOptionSets ==
  [max : AnyLimits, maxProcessed : AnyLimits, time : AnyDurations, idle : AnyDurations,
   filter : Filters]

\* new MessageCollector(channel, options) on a client without collectors.
NewMessageCollector(c, channel, options) ==
  /\ c \notin Live
  /\ LET w == construct(World, c, channel, options)
     IN Commit(w, Op("new", DOMAIN w.cols, Null, <<>>, channel.id) @@ [options |-> options])

InitNew ==
  /\ listeners = EmptyWorld.listeners
  /\ maxListeners = EmptyWorld.maxListeners
  /\ calls = EmptyWorld.calls
  /\ cols = EmptyWorld.cols
  /\ log = <<>>
  /\ roleManager = NoManager
  /\ last = Op("client", {}, Null, <<>>, "")

NextNew ==
  \E channel \in TargetChannels, options \in AnyOptionSets :
    NewMessageCollector("A", channel, options)

SpecNew == InitNew /\ [][NextNew]_vars

\* ------------------------------------------------- vocabulary of the claims
Running(c) == ~cols[c].ended
Target(c, i) == Msg(i).channel = cols[c].channel.id
\* Entries of a log that belong to collector c.
IsOf(c, e) == e.col = c
LogOf(l, c) == SelectSeq(l, LAMBDA e : IsOf(c, e))
\* The step just taken ran handler op of collector c: called directly on c,
\* or through an emission while c's listener for the event was registered.
Delivered(c, op) == last'.op = op /\ c \in last'.to
RegisteredTimes(c, e) == Cardinality({ i \in DOMAIN listeners[e] : listeners[e][i] = c })

\* ------------------------------------------------------------------ claims

\* C1: once a collector has ended, for whatever reason, none of its five
\* listeners is registered on the client any more, each of them was removed by
\* exactly one removeListener call, and the max-listener budget was raised once
\* (at construction) and lowered exactly once (at termination); until then each
\* listener is registered exactly once and nothing was removed or lowered.
C1_ListenerCleanup ==
  /\ \A c \in Live :
       /\ calls[c].inc = 1
       /\ \A e \in Events : calls[c].on[e] = 1
       /\ cols[c].ended =>
            /\ \A e \in Events : RegisteredTimes(c, e) = 0 /\ calls[c].off[e] = 1
            /\ calls[c].dec = 1
       /\ ~cols[c].ended =>
            /\ \A e \in Events : RegisteredTimes(c, e) = 1 /\ calls[c].off[e] = 0
            /\ calls[c].dec = 0
  /\ maxListeners = BaseMaxListeners + Cardinality({ c \in Live : ~cols[c].ended })

C1_Witness ==
  \E c \in Live :
    /\ cols[c].ended
    /\ cols[c].reason = "idle"
    /\ \A e \in Events : ~Registered(listeners, e, c) /\ calls[c].off[e] = 1
    /\ calls[c].dec = 1
    /\ maxListeners = BaseMaxListeners

\* The condition on a step that StopIsIdempotent states.
C2_StopStep ==
  \A c \in Live :
    /\ cols[c].ended <=> cols[c].reason # NoReason
    /\ cols[c].ends = IF cols[c].ended THEN 1 ELSE 0
    /\ cols[c].ended =>
         /\ cols'[c].ended
         /\ cols'[c].reason = cols[c].reason
         /\ cols'[c].ends = cols[c].ends
    /\ (Delivered(c, "stop") /\ cols[c].ended) =>
         /\ cols' = cols
         /\ listeners' = listeners
         /\ maxListeners' = maxListeners
         /\ calls' = calls
         /\ log' = <<>>
    /\ (Delivered(c, "stop") /\ ~cols[c].ended) =>
         /\ cols'[c].ended
         /\ cols'[c].reason = last'.name
         /\ LogOf(log', c) = <<Entry(c, "end", Null, last'.name, cols[c].collected)>>

\* The idempotence of stop in terms of the reason that "end" carries.  Once
\* ended, a collector stays ended with the reason of the first stop and "end" is
\* not emitted again; a stop(b) on an ended collector changes nothing and emits
\* nothing; a stop(a) on a running collector ends it and emits "end" with
\* reason a; "end" was emitted exactly once exactly when ended.
StopIsIdempotent == [][C2_StopStep]_vars

\* The condition on a step that C2_IdempotentStop states.
C2_EndReasonStep ==
  /\ C2_StopStep
  /\ \A c \in Live :
       /\ (Delivered(c, "stop") /\ Running(c)) => endReason(cols'[c]) = last'.name
       /\ (Delivered(c, "stop") /\ ~Running(c)) => endReason(cols'[c]) = endReason(cols[c])

\* C2: stop(a) followed by stop(b) on a running collector leaves the
\* collector's endReason equal to a: a stop(a) that ends the collector makes
\* endReason a, a stop on an ended collector changes no state and emits
\* nothing, and ended goes from false to true exactly once.
C2_IdempotentStop == [][C2_EndReasonStep]_vars

\* The condition on a step that C3_NoMutationAfterEnd states.
C3_EndedStep ==
  \A c \in Live :
    (cols[c].ended /\ (Delivered(c, "handleCollect") \/ Delivered(c, "handleDispose"))) =>
      /\ cols'[c].collected = cols[c].collected
      /\ cols'[c].received = cols[c].received
      /\ cols'[c].reason = cols[c].reason
      /\ endReason(cols'[c]) = endReason(cols[c])
      /\ LogOf(log', c) = <<>>

\* C3: on an ended collector, handleCollect and handleDispose change neither
\* collected nor received nor the end reason, and emit nothing.
C3_NoMutationAfterEnd == [][C3_EndedStep]_vars

\* C4: with maxProcessed set, a running collector always has received below
\* maxProcessed: it ends while processing the message that brings received up
\* to maxProcessed, accepted or rejected, so the limit is never skipped past.
C4_ProcessedLimitNotSkipped ==
  \A c \in Live :
    (Running(c) /\ Truthy(cols[c].options.maxProcessed)) =>
      cols[c].received < Val(cols[c].options.maxProcessed)

\* The processed limit was reached by a message the filter rejected.
C4_Witness ==
  \E c \in Live :
    /\ cols[c].ended
    /\ cols[c].reason = "processedLimit"
    /\ cols[c].received = Val(cols[c].options.maxProcessed)
    /\ last.op = "handleCollect"
    /\ Target(c, last.id)
    /\ ~Accepts(cols[c].options.filter, Msg(last.id))

\* The condition on a step that C5_ForeignMessageIgnored states.
C5_ForeignStep ==
  \A c \in Live :
    (Delivered(c, "handleCollect") /\ ~Target(c, last'.id)) =>
      /\ cols'[c] = cols[c]
      /\ LogOf(log', c) = <<>>
      /\ listeners' = listeners
      /\ maxListeners' = maxListeners

\* C5: handleCollect on a message of another channel leaves the collector's
\* whole state (received, collected, timers, ended, reason) as it was, emits no
\* notification and restarts no timer.
C5_ForeignMessageIgnored == [][C5_ForeignStep]_vars

\* A running collector with an idle timer and a collected item was handed a
\* message of another channel.
C5_Witness ==
  \E c \in Live :
    /\ last.op = "handleCollect"
    /\ ~Target(c, last.id)
    /\ Running(c)
    /\ cols[c].idletimeout
    /\ cols[c].collected # <<>>
    /\ Registered(listeners, MESSAGE_CREATE, c)

\* The condition on a step that ReceivedCountsWhileRunning states.
C6_RunningStep ==
  \A c \in Live :
    /\ Size(cols[c].collected) <= cols[c].received
    /\ Running(c) =>
         IF Delivered(c, "handleCollect") /\ Target(c, last'.id)
         THEN /\ cols'[c].received = cols[c].received + 1
              /\ IF Accepts(cols[c].options.filter, Msg(last'.id))
                 THEN cols'[c].collected = Set(cols[c].collected, last'.id, Msg(last'.id))
                 ELSE cols'[c].collected = cols[c].collected
         ELSE cols'[c].received = cols[c].received

\* The part of C6 that concerns a running collector: every target-channel
\* message it handles raises received by exactly one, accepted or not, and is
\* put into collected exactly when the filter accepts it; no other step on a
\* running collector changes received; collected.size never exceeds received.
ReceivedCountsWhileRunning == [][C6_RunningStep]_vars

\* The condition on a step that C6_ReceivedCountsProcessed states: received
\* counts the target-channel messages handled while running, and nothing else.
C6_CountStep ==
  /\ C6_RunningStep
  /\ \A c \in Live : ~Running(c) => cols'[c].received = cols[c].received

\* C6: every target-channel message handled while the collector is running
\* raises received by exactly one, accepted or not, and is put into collected
\* exactly when the filter accepts it; received changes in no other step, so
\* after any sequence of events it equals the number of target-channel
\* messages handled while running; and collected.size never exceeds received.
C6_ReceivedCountsProcessed == [][C6_CountStep]_vars

\* The condition on a step that C7_LimitPrecedence states.
C7_PrecedenceStep ==
  \A c \in Live :
    ( /\ Running(c)
      /\ Delivered(c, "handleCollect")
      /\ Truthy(cols[c].options.max)
      /\ Truthy(cols[c].options.maxProcessed)
      /\ Size(cols'[c].collected) >= Val(cols[c].options.max)
      /\ cols'[c].received = Val(cols[c].options.maxProcessed) ) =>
      /\ cols'[c].ended
      /\ cols'[c].reason = "limit"
      /\ endReason(cols'[c]) = "limit"
      /\ \E i \in DOMAIN log' : log'[i].col = c /\ log'[i].what = "end" /\ log'[i].reason = "limit"

\* C7: when a handleCollect leaves both collected.size >= max and
\* received = maxProcessed, the collector ends with reason "limit".
C7_LimitPrecedence == [][C7_PrecedenceStep]_vars

C7_Witness ==
  \E c \in Live :
    /\ cols[c].ended
    /\ cols[c].reason = "limit"
    /\ last.op = "handleCollect"
    /\ Truthy(cols[c].options.max)
    /\ Truthy(cols[c].options.maxProcessed)
    /\ Size(cols[c].collected) >= Val(cols[c].options.max)
    /\ cols[c].received = Val(cols[c].options.maxProcessed)

\* The condition on a step that C8_DisposalAsStated states.
C8_DisposeStepAsStated ==
  \A c \in Live :
    Delivered(c, "handleDispose") =>
      IF Target(c, last'.id) /\ Has(cols[c].collected, last'.id)
      THEN /\ cols'[c] = [cols[c] EXCEPT !.collected = Delete(@, last'.id)]
           /\ Size(cols'[c].collected) = Size(cols[c].collected) - 1
           /\ LogOf(log', c) = <<Entry(c, "dispose", last'.id, NoReason, <<>>)>>
      ELSE cols'[c] = cols[c] /\ LogOf(log', c) = <<>>

\* C8 (as stated): handleDispose on a target-channel message present in
\* collected removes exactly that entry, emits "dispose", leaves received alone
\* and does not end the collector; on any other message it changes nothing.
C8_DisposalAsStated == [][C8_DisposeStepAsStated]_vars

\* The condition on a step that C8_DisposalIndependence states.
C8_DisposeStep ==
  \A c \in Live :
    Delivered(c, "handleDispose") =>
      IF Running(c) /\ Target(c, last'.id) /\ Has(cols[c].collected, last'.id)
      THEN /\ cols'[c] = [cols[c] EXCEPT !.collected = Delete(@, last'.id)]
           /\ Size(cols'[c].collected) = Size(cols[c].collected) - 1
           /\ LogOf(log', c) = <<Entry(c, "dispose", last'.id, NoReason, <<>>)>>
      ELSE cols'[c] = cols[c] /\ LogOf(log', c) = <<>>

\* C8 (amended): the same, for a running collector; on an ended collector
\* handleDispose changes nothing, whatever the message.
C8_DisposalIndependence == [][C8_DisposeStep]_vars

\* A disposal took an entry out of a running collector and left another one.
C8_Witness ==
  \E c \in Live :
    /\ last.op = "handleDispose"
    /\ Running(c)
    /\ log = <<Entry(c, "dispose", last.id, NoReason, <<>>)>>
    /\ ~Has(cols[c].collected, last.id)
    /\ cols[c].collected # <<>>
    /\ cols[c].received >= 2

\* The entries a bulk deletion of ids takes out of c, and the condition on a
\* step that C9_BulkDisposal states.
Removed(c, ids) == { i \in Range(ids) : Target(c, i) /\ Has(cols[c].collected, i) }
Kept(S, e) == e.key \notin S
DisposedIds(l) == [i \in DOMAIN l |-> l[i].id]
IsIn(S, m) == m.id \in S
C9_BulkStep ==
  \A c \in Live :
    Delivered(c, "bulkDelete") =>
      /\ cols'[c] = [cols[c] EXCEPT
                       !.collected = SelectSeq(@, LAMBDA e : Kept(Removed(c, last'.ids), e))]
      /\ Keys(cols'[c].collected) = Keys(cols[c].collected) \ Removed(c, last'.ids)
      /\ \A i \in DOMAIN LogOf(log', c) : LogOf(log', c)[i].what = "dispose"
      /\ DisposedIds(LogOf(log', c)) =
           DisposedIds(SelectSeq(Payload(last'.ids), LAMBDA m : IsIn(Removed(c, last'.ids), m)))

\* C9: a bulk-delete event removes from collected exactly the contained
\* messages of the target channel that were in it, one "dispose" each in the
\* order of the event, and leaves the other entries, received and the running
\* state as they were.
C9_BulkDisposal == [][C9_BulkStep]_vars

\* A bulk deletion of several messages, one of them of another channel, removed
\* an entry and left another entry in place.
C9_Witness ==
  \E c \in Live :
    /\ last.op = "bulkDelete"
    /\ c \in last.to
    /\ Len(last.ids) >= 2
    /\ last.ids[1] > last.ids[2]
    /\ \E i \in Range(last.ids) : ~Target(c, i)
    /\ Len(LogOf(log, c)) >= 1
    /\ cols[c].collected # <<>>

\* The condition on a step that C10_CascadingGuildStop states.
C10_GuildStep ==
  \A c \in Live :
    /\ cols[c].channel.guild = Undefined => cols[c].reason # "guildDelete"
    /\ (Running(c) /\ Delivered(c, "guildDelete")) =>
         IF last'.name = cols[c].channel.guild
         THEN /\ cols'[c].ended
              /\ cols'[c].reason = "guildDelete"
              /\ cols'[c].collected = cols[c].collected
              /\ cols'[c].received = cols[c].received
         ELSE cols'[c] = cols[c] /\ LogOf(log', c) = <<>>

\* C10: a guild-delete event for the guild of a running collector's channel
\* ends it with reason "guildDelete"; one for another guild leaves its state
\* unchanged and emits nothing; and a collector on a channel without a guild
\* never has the reason "guildDelete".
C10_CascadingGuildStop == [][C10_GuildStep]_vars

C10_Witness ==
  \E c \in Live :
    /\ cols[c].ended
    /\ cols[c].reason = "guildDelete"
    /\ last.op = "guildDelete"
    /\ last.name = cols[c].channel.guild
    /\ cols[c].collected # <<>>
\* The condition on a step that C11_CascadingChannelStop states.
C11_ChannelStep ==
  \A c \in Live :
    /\ (Running(c) /\ Delivered(c, "channelDelete")) =>
         IF last'.name = cols[c].channel.id
         THEN /\ cols'[c].ended
              /\ cols'[c].reason = "channelDelete"
              /\ cols'[c].collected = cols[c].collected
              /\ cols'[c].received = cols[c].received
         ELSE cols'[c] = cols[c] /\ LogOf(log', c) = <<>>
    /\ (Running(c) /\ cols'[c].reason = "channelDelete") =>
         Delivered(c, "channelDelete") /\ last'.name = cols[c].channel.id

\* C11: a channel-delete event ends a running collector with reason
\* "channelDelete" exactly when the deleted channel is the collector's channel;
\* one for another channel leaves the collector's state unchanged and emits
\* nothing, and no other step ends a collector with that reason.
C11_CascadingChannelStop == [][C11_ChannelStep]_vars

C11_Witness ==
  \E c \in Live :
    /\ cols[c].ended
    /\ cols[c].reason = "channelDelete"
    /\ last.op = "channelDelete"
    /\ last.name = cols[c].channel.id
    /\ cols[c].collected # <<>>
\* The condition on a step that C12_ConfigurationError states.
C12_NewStep ==
  last'.op = "new" =>
    IF \E o \in {last'.options.max, last'.options.maxProcessed,
                 last'.options.time, last'.options.idle} : \E n \in o : n <= 0
    THEN /\ log' = <<Entry("A", "throw", Null, "ConfigurationError", <<>>)>>
         /\ listeners' = listeners
         /\ maxListeners' = maxListeners
         /\ calls' = calls
         /\ cols' = cols
    ELSE /\ log' = <<>>
         /\ "A" \in DOMAIN cols'
         /\ \A e \in Events : listeners'[e] = <<"A">>
         /\ maxListeners' = maxListeners + 1

\* C12: constructing a collector with a zero or negative max, maxProcessed,
\* time or idle throws a configuration error and leaves the client as it was:
\* no listener registered, the budget not raised, no collector created; with
\* valid options the collector is created and subscribed.
C12_ConfigurationError == [][C12_NewStep]_vars

\* The condition on a step that C13_EndAtMostOnce states.
EndsOf(l, c) == SelectSeq(LogOf(l, c), LAMBDA e : e.what = "end")
C13_EndStep ==
  \A c \in Live :
    /\ cols[c].ends = IF cols[c].ended THEN 1 ELSE 0
    /\ cols[c].ended <=> cols[c].reason # NoReason
    /\ cols[c].ended =>
         /\ cols'[c].ended
         /\ cols'[c].reason = cols[c].reason
         /\ cols'[c].ends = cols[c].ends
         /\ EndsOf(log', c) = <<>>
    /\ Running(c) =>
         /\ Len(EndsOf(log', c)) = IF cols'[c].ended THEN 1 ELSE 0
         /\ \A i \in DOMAIN EndsOf(log', c) : EndsOf(log', c)[i].reason = cols'[c].reason
         /\ calls'[c].dec = IF cols'[c].ended THEN 1 ELSE 0
    /\ ( /\ Running(c)
         /\ Delivered(c, "handleCollect")
         /\ Target(c, last'.id)
         /\ Accepts(cols[c].options.filter, Msg(last'.id))
         /\ cols[c].observer = "stop" ) =>
         /\ cols'[c].ended
         /\ cols'[c].reason = ObserverReason
         /\ Has(cols'[c].collected, last'.id)

\* C13: over any sequence of events, timer firings and stop calls, with a
\* "collect" observer that calls stop(r) re-entrantly, "end" is emitted at most
\* once (and the teardown runs once), it carries the reason of the first
\* successful stop, which never changes afterwards; a stop(r) from the collect
\* handler ends the collector with reason r, also when the item reaches max.
C13_EndAtMostOnce == [][C13_EndStep]_vars

\* The observer stopped the collector on the item that reached max.
C13_Witness ==
  \E c \in Live :
    /\ cols[c].observer = "stop"
    /\ cols[c].ended
    /\ cols[c].reason = ObserverReason
    /\ cols[c].ends = 1
    /\ last.op = "handleCollect"
    /\ Truthy(cols[c].options.max)
    /\ Size(cols[c].collected) = Val(cols[c].options.max)
    /\ endReason(cols[c]) = "limit"
\* The condition on a step that C14_FetchContract states.
CachedAt(cache, id) == \E i \in DOMAIN cache : cache[i].key = id
C14_FetchStep ==
  /\ last'.op = "fetch" =>
       IF /\ last'.id # Null
          /\ ~roleManager'.call.force
          /\ CachedAt(roleManager.cache, last'.id)
       THEN /\ roleManager'.requests = roleManager.requests
            /\ roleManager'.cache = roleManager.cache
            /\ roleManager'.pending = roleManager.pending
            /\ roleManager'.result.kind = "role"
            /\ \E i \in DOMAIN roleManager.cache :
                 /\ roleManager.cache[i].key = last'.id
                 /\ roleManager'.result.role = roleManager.cache[i].value
       ELSE /\ roleManager'.requests = roleManager.requests + 1
            /\ roleManager'.cache = roleManager.cache
            /\ roleManager'.pending = Append(roleManager.pending, roleManager'.call)
            /\ roleManager'.call.id = last'.id
            /\ roleManager'.result.kind = "none"
  /\ last'.op # "fetch" =>
       /\ roleManager'.requests = roleManager.requests
       /\ Len(roleManager'.pending) <= Len(roleManager.pending)
  /\ last'.op \in {"resolve", "reject"} =>
       /\ Len(roleManager'.pending) = Len(roleManager.pending) - 1
       /\ roleManager'.call.id = last'.id
  /\ (last'.op = "resolve" /\ last'.id # Null) =>
       IF \E k \in DOMAIN last'.ids : last'.ids[k] = last'.id
       THEN /\ roleManager'.result.kind = "role"
            /\ roleManager'.result.role.id = last'.id
            /\ ~CachedAt(roleManager.cache, last'.id)
                 => roleManager'.result.role = Role(last'.id, "new")
            /\ roleManager'.call.cache => roleManager'.result.role = Role(last'.id, "new")
       ELSE roleManager'.result.kind = "null"

\* C14: fetch(id, cache, force) with a non-empty id, force false and the role
\* cached returns the cached role, issues no request and leaves the cache
\* alone; every other call issues exactly one request, also while other calls
\* await their responses, and no other step issues one; for a given id the
\* result is the role of that id from the response, or null when the response
\* has none.
C14_FetchContract == [][C14_FetchStep]_vars

\* Two fetches overlapped; the one issued first, a forced fetch of a cached
\* role, was answered last by a response that lacks the role, and returned null.
C14_Witness ==
  /\ last.op = "resolve"
  /\ last.id # Null
  /\ roleManager.call.force
  /\ ~(\E k \in DOMAIN last.ids : last.ids[k] = last.id)
  /\ CachedAt(roleManager.cache, last.id)
  /\ roleManager.result.kind = "null"
  /\ roleManager.requests = 2
  /\ roleManager.pending = <<>>

\* The condition on a step that C15_MaxLimitAsStated states.
HasEntry(l, c, what) == \E i \in DOMAIN l : l[i].col = c /\ l[i].what = what
C15_LimitStepAsStated ==
  \A c \in Live :
    Truthy(cols[c].options.max) =>
      /\ Running(c) => Size(cols[c].collected) < Val(cols[c].options.max)
      /\ (Running(c) /\ Size(cols'[c].collected) >= Val(cols[c].options.max)) =>
           /\ Delivered(c, "handleCollect")
           /\ Size(cols'[c].collected) = Size(cols[c].collected) + 1
           /\ Size(cols'[c].collected) = Val(cols[c].options.max)
           /\ cols'[c].ended
           /\ cols'[c].reason = "limit"
           /\ HasEntry(log', c, "end")
      /\ Size(cols[c].collected) >= Val(cols[c].options.max) =>
           /\ cols'[c].collected = cols[c].collected
           /\ ~HasEntry(log', c, "collect")

\* C15 as stated: with max set, the handleCollect call that brings
\* collected.size up to max ends the collector with reason "limit" in that
\* same call, whatever the observers of "collect" do; a running collector has
\* collected.size < max, and once max is reached no further item is accepted.
C15_MaxLimitAsStated == [][C15_LimitStepAsStated]_vars

\* The condition on a step that C15_MaxLimit states.
C15_LimitStep ==
  \A c \in Live :
    Truthy(cols[c].options.max) =>
      /\ Running(c) => Size(cols[c].collected) < Val(cols[c].options.max)
      /\ (Running(c) /\ Size(cols'[c].collected) >= Val(cols[c].options.max)) =>
           /\ Delivered(c, "handleCollect")
           /\ Size(cols'[c].collected) = Size(cols[c].collected) + 1
           /\ Size(cols'[c].collected) = Val(cols[c].options.max)
           /\ cols'[c].ended
           /\ cols'[c].reason =
                IF cols[c].observer = "stop" THEN ObserverReason ELSE "limit"
           /\ Len(EndsOf(log', c)) = 1
           /\ EndsOf(log', c)[1].reason = cols'[c].reason
           /\ endReason(cols'[c]) = "limit"
      /\ Size(cols[c].collected) >= Val(cols[c].options.max) =>
           /\ cols'[c].collected = cols[c].collected
           /\ ~HasEntry(log', c, "collect")

\* C15 (amended): with max set, the handleCollect call that brings
\* collected.size up to max ends the collector in that same call, with reason
\* "limit" unless an observer of "collect" has called stop(r) during the call,
\* in which case the reason is r; so between steps a running collector has
\* collected.size < max, and once max has been reached no further item is
\* accepted.
C15_MaxLimit == [][C15_LimitStep]_vars

\* Without an observer that stops, the second accepted item reached max = 2
\* and ended the collector with "limit".
C15_Witness ==
  \E c \in Live :
    /\ cols[c].options.max = {2}
    /\ cols[c].observer = "none"
    /\ Size(cols[c].collected) = 2
    /\ cols[c].ended
    /\ cols[c].reason = "limit"
    /\ last.op = "handleCollect"
    /\ HasEntry(log, c, "end")

\* The condition on a step that C16_IdleTimer states.
Restarts(l, c) == Len(SelectSeq(LogOf(l, c), LAMBDA e : e.what = "resetIdle"))
C16_IdleStep ==
  \A c \in Live :
    /\ Restarts(log', c) =
         IF /\ cols[c].options.idle # {}
            /\ Running(c)
            /\ Delivered(c, "handleCollect")
            /\ Target(c, last'.id)
            /\ Accepts(cols[c].options.filter, Msg(last'.id))
         THEN 1 ELSE 0
    /\ (last'.op = "idle" /\ c \in last'.to) =>
         /\ Running(c) /\ cols[c].options.idle # {}
         /\ cols'[c].ended /\ cols'[c].reason = "idle"
    /\ (last'.op = "timeout" /\ c \in last'.to) =>
         /\ Running(c) /\ cols[c].options.time # {}
         /\ cols'[c].ended /\ cols'[c].reason = "time"
    /\ ~Running(c) => ~cols[c].idletimeout /\ ~cols[c].timeout

\* C16: with idle set, the idle timer is restarted once by every accepted item
\* of a running collector and by nothing else (not by a rejected message, a
\* foreign message, a disposal or any other step); the idle timer expires only
\* while the collector runs and ends it with reason "idle", and the time timer
\* likewise ends it with reason "time".
C16_IdleTimer == [][C16_IdleStep]_vars

\* The idle timer expired after an item had been accepted and one rejected.
C16_Witness ==
  \E c \in Live :
    /\ cols[c].ended
    /\ cols[c].reason = "idle"
    /\ last.op = "idle"
    /\ cols[c].options.filter = "odd"
    /\ cols[c].received = 2
    /\ Size(cols[c].collected) = 1
\* C17 as stated: in every step, collected.size changes by at most one.
Abs(n) == IF n < 0 THEN 0 - n ELSE n
C17_StepAsStated ==
  \A c \in Live :
    /\ cols'[c].received >= cols[c].received
    /\ Abs(Size(cols'[c].collected) - Size(cols[c].collected)) <= 1
C17_MonotonicAsStated == [][C17_StepAsStated]_vars

\* The condition on a step that C17_Monotonic states.
Disposals(l, c) == Len(SelectSeq(LogOf(l, c), LAMBDA e : e.what = "dispose"))
C17_Step ==
  \A c \in Live :
    /\ cols'[c].received >= cols[c].received
    /\ Size(cols'[c].collected) <= Size(cols[c].collected) + 1
    /\ Size(cols'[c].collected) > Size(cols[c].collected) =>
         /\ Delivered(c, "handleCollect")
         /\ Target(c, last'.id)
         /\ Accepts(cols[c].options.filter, Msg(last'.id))
         /\ HasEntry(log', c, "collect")
    /\ Size(cols'[c].collected) < Size(cols[c].collected) =>
         /\ Delivered(c, "handleDispose") \/ Delivered(c, "bulkDelete")
         /\ Size(cols[c].collected) - Size(cols'[c].collected) = Disposals(log', c)
         /\ Keys(cols'[c].collected) \subseteq Keys(cols[c].collected)
    /\ Delivered(c, "handleDispose") =>
         Size(cols'[c].collected) =
           IF Running(c) /\ Has(cols[c].collected, last'.id)
           THEN Size(cols[c].collected) - 1 ELSE Size(cols[c].collected)
    /\ ( \/ last'.op \notin {"handleCollect", "handleDispose", "bulkDelete"}
         \/ c \notin last'.to
         \/ ( /\ last'.op = "handleCollect"
              /\ ~(Target(c, last'.id) /\ Accepts(cols[c].options.filter, Msg(last'.id))) ) )
         => cols'[c].collected = cols[c].collected

\* C17 (amended): received never decreases; collected.size grows by at most
\* one in a step, and only on an accepted item; it shrinks only by explicit
\* disposals, each removing one present entry: by exactly one on the disposal
\* of a present entry, and in a bulk-delete step by one per message disposed;
\* no other step (stop, timer firing, channel or guild deletion, rejected or
\* foreign message) changes collected.
C17_Monotonic == [][C17_Step]_vars

\* A bulk deletion removed two entries in one step.
C17_Witness ==
  \E c \in Live :
    /\ last.op = "bulkDelete"
    /\ c \in last.to
    /\ Disposals(log, c) = 2
    /\ Size(cols[c].collected) = 0
    /\ cols[c].received = 2
\* The condition on a step that C18_Independence states.
Subscribed(ls, c) ==
  \A e \in Events : Cardinality({ i \in DOMAIN ls[e] : ls[e][i] = c }) = 1
Unsubscribed(ls, c) ==
  \A e \in Events : \A i \in DOMAIN ls[e] : ls[e][i] # c
C18_Step ==
  /\ Cardinality(last'.to) = 1 \/ last'.to = { c \in Live : Running(c) }
  /\ maxListeners' = BaseMaxListeners + Cardinality({ c \in Live : ~cols'[c].ended })
  /\ \A c \in Live :
       /\ IF cols'[c].ended THEN Unsubscribed(listeners', c) ELSE Subscribed(listeners', c)
       /\ c \notin last'.to => cols'[c] = cols[c]
       /\ (Running(c) /\ Delivered(c, "handleCollect")) =>
            IF Target(c, last'.id)
            THEN /\ cols'[c].received = cols[c].received + 1
                 /\ cols'[c].collected =
                      IF Accepts(cols[c].options.filter, Msg(last'.id))
                      THEN Set(cols[c].collected, last'.id, Msg(last'.id))
                      ELSE cols[c].collected
            ELSE /\ cols'[c].received = cols[c].received
                 /\ cols'[c].collected = cols[c].collected
       /\ (Running(c) /\ ~cols'[c].ended) =>
            /\ LogOf(log', c) # <<>> => c \in last'.to
            /\ \A o \in Live \ {c} :
                 (Running(o) /\ cols'[o].ended) =>
                   /\ Subscribed(listeners', c)
                   /\ Unsubscribed(listeners', o)
                   /\ cols'[c].ended = FALSE

\* C18: two collectors on one client, on the same or on different channels,
\* are independent: an event emitted by the client is handled by every running
\* collector, each processing a message of its own channel by its own filter
\* and counters; a step not delivered to a collector leaves it untouched; and
\* the end of one removes its own five listeners only, so the other stays
\* subscribed once to each of the five events and keeps collecting.
C18_Independence == [][C18_Step]_vars

\* On a shared channel B has ended on its processed limit while A, having
\* handled a message together with B, runs on and has just collected a
\* message emitted after B's end.
C18_Witness ==
  /\ Live = {"A", "B"}
  /\ cols["A"].channel = cols["B"].channel
  /\ cols["B"].ended /\ cols["B"].reason = "processedLimit"
  /\ ~cols["A"].ended
  /\ Subscribed(listeners, "A")
  /\ Unsubscribed(listeners, "B")
  /\ cols["A"].received = 2
  /\ last.op = "handleCollect" /\ last.to = {"A"}
  /\ HasEntry(log, "A", "collect")
\* The condition on a step that C19_CollectBeforeEnd states.
C19_OrderStep ==
  \A c \in Live :
    /\ ( /\ Running(c)
         /\ Delivered(c, "handleCollect")
         /\ Target(c, last'.id)
         /\ Accepts(cols[c].options.filter, Msg(last'.id))
         /\ \/ /\ Truthy(cols[c].options.max)
               /\ Size(cols'[c].collected) >= Val(cols[c].options.max)
            \/ /\ Truthy(cols[c].options.maxProcessed)
               /\ cols'[c].received = Val(cols[c].options.maxProcessed) ) =>
         \E i, j \in DOMAIN log' :
           /\ i < j
           /\ log'[i].col = c /\ log'[i].what = "collect" /\ log'[i].id = last'.id
           /\ log'[j].col = c /\ log'[j].what = "end"
           /\ \E k \in DOMAIN log'[j].carried :
                /\ log'[j].carried[k].key = last'.id
                /\ log'[j].carried[k].value = Msg(last'.id)
    /\ \A i, j \in DOMAIN log' :
         (i < j /\ log'[i].col = c /\ log'[i].what = "end") =>
           ~(log'[j].col = c /\ log'[j].what \in {"collect", "dispose", "end"})
    /\ cols[c].ends > 0 =>
         /\ ~HasEntry(log', c, "collect")
         /\ ~HasEntry(log', c, "dispose")
         /\ ~HasEntry(log', c, "end")

\* C19: when an accepted item makes an end condition true (collected.size
\* reaches max, or received equals maxProcessed), that item's "collect"
\* notification precedes the "end" notification of the same step, and the
\* collected set carried by "end" holds the item; after "end", in that step
\* and in every later one, no "collect", "dispose" or second "end" is emitted.
C19_CollectBeforeEnd == [][C19_OrderStep]_vars

\* An accepted item reached the processed limit: collect, then end carrying it.
C19_Witness ==
  \E c \in Live :
    /\ cols[c].ended
    /\ cols[c].reason = "processedLimit"
    /\ last.op = "handleCollect"
    /\ cols[c].options.max = {}
    /\ Len(LogOf(log, c)) >= 2
    /\ LogOf(log, c)[1].what = "collect"
    /\ LogOf(log, c)[Len(LogOf(log, c))].what = "end"
    /\ Size(LogOf(log, c)[Len(LogOf(log, c))].carried) = 2
\* C20: in every reachable state, every entry of collected is keyed by the
\* identity of the message it holds, that message was posted in the
\* collector's target channel, no key occurs twice, and every "collect" or
\* "dispose" notification of the last step is about a message of the target
\* channel: no message of another channel is ever put into collected or
\* removed from it.
C20_ChannelScoping ==
  \A c \in Live :
    /\ \A i \in DOMAIN cols[c].collected :
         /\ cols[c].collected[i].key = cols[c].collected[i].value.id
         /\ cols[c].collected[i].value = Msg(cols[c].collected[i].key)
         /\ cols[c].collected[i].value.channel = cols[c].channel.id
         /\ \A j \in DOMAIN cols[c].collected :
              cols[c].collected[i].key = cols[c].collected[j].key => i = j
    /\ \A i \in DOMAIN log :
         (log[i].col = c /\ log[i].what \in {"collect", "dispose"}) =>
           Msg(log[i].id).channel = cols[c].channel.id

\* A collector on the direct-message channel holds its message after the
\* deletion of a message of another channel was delivered to it.
C20_Witness ==
  \E c \in Live :
    /\ cols[c].channel.id = "d1"
    /\ Has(cols[c].collected, 3)
    /\ last.op = "handleDispose"
    /\ c \in last.to
    /\ Msg(last.id).channel = "c1"
    /\ cols[c].received = 1
====
